---- MODULE Spec2Model ----
(***************************************************************************)
(* A model of the executable snippets of the "Composing Software" notes:   *)
(*   - pipe / compose             (reduce notes, intro, functional mixins) *)
(*   - the Identity functor       (nocs-06-functors.js)                    *)
(*   - the Redux-style reducer, reduced over actions and called directly   *)
(*   - the flying functional mixin (functional mixins notes)               *)
(* Every snippet is a script of its own; `section` says which one runs.    *)
(* JavaScript numbers are modelled by integers: n + 1 and n * 2 are exact  *)
(* on the integers of magnitude below 2^53, far above every bound here.    *)
(***************************************************************************)
EXTENDS Integers, Sequences, FiniteSets, TLC

VARIABLES
    section,    \* which snippet runs: one of Sections
    fns,        \* compose: the names of the functions given to pipe/compose
    x,          \* compose: the argument of the composed function
    y,          \* compose: the value the composed function returned
    op,         \* compose: "none", "pipe" or "compose", the last one called
    u,          \* functor: the Identity under study
    maps,       \* functor: how many .map() calls built u
    ident,      \* functor: <<u.map(x => x)>> once computed, else <<>>
    r1,         \* functor: <<u.map(x => f(g(x)))>> once computed, else <<>>
    r2,         \* functor: <<u.map(g).map(f)>> once computed, else <<>>
    f,          \* functor: the name bound to f in the composition law
    g,          \* functor: the name bound to g in the composition law
    actions,    \* redux: the action objects dispatched so far, in order
    store,      \* redux: the state after dispatching them one at a time
    call,       \* reducer: <<[state, action, result]>> of the last direct
                \* call of summingReducer, else <<>>
    isFlying,   \* mixin: the closure variable of each object flying() made
    calls       \* mixin: per object, the fly/land calls made on it, in order

vars == <<section, fns, x, y, op, u, maps, ident, r1, r2, f, g, actions,
          store, call, isFlying, calls>>

composeVars == <<fns, x, y, op>>
functorVars == <<u, maps, ident, r1, r2, f, g>>
reduxVars == <<actions, store, call>>
mixinVars == <<isFlying, calls>>

\* ------------------------------------------------------------------ bounds

MaxFns == 3         \* functions given to one pipe()/compose() call
MaxX == 3           \* arguments and wrapped values range over 0..MaxX
MaxMaps == 2        \* .map() calls chained on one Identity
MaxActions == 3     \* action objects dispatched
MaxValue == 2       \* payload.value ranges over -1..MaxValue
MaxObjects == 2     \* objects made by flying()
MaxCalls == 3       \* fly()/land() calls on one object

Sections == {"compose", "functor", "redux", "reducer", "mixin"}

\* Sequences over S of length at most n.
SeqsUpTo(S, n) == UNION {[1..k -> S] : k \in 0..n}

\* ------------------------------------------------- the functions composed

\* const add1 = n => n + 1;
add1 == [n \in Int |-> n + 1]

\* const double = n => n * 2;
double == [n \in Int |-> n * 2]

\* x => x
identity == [n \in Int |-> n]

FnNames == {"add1", "double", "identity"}

\* The function a name is bound to.
FnOf(name) ==
    CASE name = "add1" -> add1
      [] name = "double" -> double
      [] name = "identity" -> identity

\* The argument list (...fns) built from the names.
Fns(names) == [i \in 1..Len(names) |-> FnOf(names[i])]

\* ---------------------------------------------------------- pipe, compose

\* The mutant of pipe: the list is folded from the right.
pipeFromRight(fs, a) ==
    LET n == Len(fs)
        v[i \in 0..n] == IF i = 0 THEN a ELSE fs[n - i + 1][v[i - 1]]
    IN  v[n]

\* const pipe = (...fns) => x => fns.reduce((v, f) => f(v), x);
\* reduce starts from x and visits fs[1], fs[2], ... in index order.
pipe(fs, a) ==
    LET n == Len(fs)
        v[i \in 0..n] == IF i = 0 THEN a ELSE fs[i][v[i - 1]]
    IN  v[n]

\* The mutant of compose: the list is folded from the left.
composeFromLeft(fs, a) ==
    LET n == Len(fs)
        v[i \in 0..n] == IF i = 0 THEN a ELSE fs[i][v[i - 1]]
    IN  v[n]

\* const compose = (...fns) => x => fns.reduceRight((v, f) => f(v), x);
\* reduceRight starts from x and visits fs[n], fs[n-1], ... down to fs[1].
compose(fs, a) ==
    LET n == Len(fs)
        v[i \in 0..n] == IF i = 0 THEN a ELSE fs[n - i + 1][v[i - 1]]
    IN  v[n]

InitCompose ==
    /\ fns = <<>>
    /\ x = 0
    /\ y = 0
    /\ op = "none"

\* pipe(...names)(a)
CallPipe(names, a) ==
    /\ section = "compose"
    /\ fns' = names
    /\ x' = a
    /\ y' = pipe(Fns(names), a)
    /\ op' = "pipe"
    /\ UNCHANGED <<section, functorVars, reduxVars, mixinVars>>

\* compose(...names)(a)
CallCompose(names, a) ==
    /\ section = "compose"
    /\ fns' = names
    /\ x' = a
    /\ y' = compose(Fns(names), a)
    /\ op' = "compose"
    /\ UNCHANGED <<section, functorVars, reduxVars, mixinVars>>

\* ------------------------------------------------------ the Identity functor

\* const Identity = value => ({ map: ..., valueOf: () => value });
\* the object is its captured value; map and valueOf are the operators below.
Identity(value) == [value |-> value]

\* valueOf: () => value
ValueOf(F) == F.value

\* The mutant of IdentityMap: the mapped value is off by one.
IdentityMapOffByOne(F, fn) == Identity(fn[F.value] + 1)

\* The mutant of IdentityMap: fn is applied twice.
IdentityMapTwice(F, fn) == Identity(fn[fn[F.value]])

\* map: fn => Identity(fn(value))
IdentityMap(F, fn) == Identity(fn[F.value])

\* const u = Identity(2); const f = n => n + 1; const g = n => n * 2;
InitFunctor ==
    /\ u = Identity(2)
    /\ maps = 0
    /\ ident = <<>>
    /\ r1 = <<>>
    /\ r2 = <<>>
    /\ f = "add1"
    /\ g = "double"

\* const u = Identity(v);
NewIdentity(v) ==
    /\ section = "functor"
    /\ u' = Identity(v)
    /\ maps' = 0
    /\ ident' = <<>>
    /\ r1' = <<>>
    /\ r2' = <<>>
    /\ UNCHANGED <<section, f, g, composeVars, reduxVars, mixinVars>>

\* u = u.map(fn), as in Identity(20).map(add1).map(double)
Map(name) ==
    /\ section = "functor"
    /\ maps < MaxMaps
    /\ u' = IdentityMap(u, FnOf(name))
    /\ maps' = maps + 1
    /\ ident' = <<>>
    /\ r1' = <<>>
    /\ r2' = <<>>
    /\ UNCHANGED <<section, f, g, composeVars, reduxVars, mixinVars>>

\* u.map(x => x)
IdentityLaw ==
    /\ section = "functor"
    /\ ident' = <<IdentityMap(u, [n \in Int |-> n])>>
    /\ UNCHANGED <<section, u, maps, r1, r2, f, g, composeVars, reduxVars,
                   mixinVars>>

\* const r1 = u.map(x => f(g(x))); const r2 = u.map(g).map(f);
CompositionLaw(fName, gName) ==
    /\ section = "functor"
    /\ f' = fName
    /\ g' = gName
    /\ r1' = <<IdentityMap(u, [n \in Int |-> FnOf(fName)[FnOf(gName)[n]]])>>
    /\ r2' = <<IdentityMap(IdentityMap(u, FnOf(gName)), FnOf(fName))>>
    /\ UNCHANGED <<section, u, maps, ident, composeVars, reduxVars, mixinVars>>

\* ---------------------------------------------------- the Redux-style reducer

\* const ADD_VALUE = 'ADD_VALUE';
ADD_VALUE == "ADD_VALUE"

\* undefined: the value of a missing property and of an omitted argument.
Undefined == "<undefined>"

\* v === undefined, for v of any type (a number, an object or undefined):
\* the printed forms are compared, as = is not defined across types.
IsUndefined(v) == ToString(v) = ToString(Undefined)

\* const { type, payload } = action;  (type)
TypeOf(action) ==
    IF "type" \in DOMAIN action THEN action.type ELSE Undefined

\* The action objects dispatched: ADD_VALUE with each payload value, an
\* unknown type with and without a payload, and {} (no type at all).
ActionObjects ==
    {[type |-> ADD_VALUE, payload |-> [value |-> n]] : n \in -1..MaxValue}
        \cup {[type |-> "OTHER", payload |-> [value |-> MaxValue]],
              [type |-> "OTHER"],
              <<>>}

\* The mutant of summingReducer: an unhandled action resets the state.
summingReducerResets(state, action) ==
    LET s == IF IsUndefined(state) THEN 0 ELSE state
        a == IF IsUndefined(action) THEN <<>> ELSE action
    IN  CASE TypeOf(a) = ADD_VALUE -> s + a.payload.value
          [] OTHER -> 0

\* The mutant of summingReducer: ADD_VALUE replaces the state.
summingReducerReplaces(state, action) ==
    LET s == IF IsUndefined(state) THEN 0 ELSE state
        a == IF IsUndefined(action) THEN <<>> ELSE action
    IN  CASE TypeOf(a) = ADD_VALUE -> a.payload.value
          [] OTHER -> s

\* const summingReducer = (state = 0, action = {}) => {
\*   const { type, payload } = action;
\*   switch (type) { case ADD_VALUE: return state + payload.value;
\*                   default: return state; } };
\* a default parameter replaces an argument that is undefined (or omitted)
\* before the body runs: s and a are the parameters the body sees.
summingReducer(state, action) ==
    LET s == IF IsUndefined(state) THEN 0 ELSE state
        a == IF IsUndefined(action) THEN <<>> ELSE action
    IN  CASE TypeOf(a) = ADD_VALUE -> s + a.payload.value
          [] OTHER -> s

\* arr.reduce(summingReducer, 0)
snapshot(arr) ==
    LET n == Len(arr)
        acc[i \in 0..n] ==
            IF i = 0 THEN 0 ELSE summingReducer(acc[i - 1], arr[i])
    IN  acc[n]

InitRedux ==
    /\ actions = <<>>
    /\ store = 0
    /\ call = <<>>

\* One action object dispatched to the store.
Dispatch(a) ==
    /\ section = "redux"
    /\ Len(actions) < MaxActions
    /\ actions' = Append(actions, a)
    /\ store' = summingReducer(store, a)
    /\ UNCHANGED <<section, call, composeVars, functorVars, mixinVars>>

\* summingReducer(state, action) called directly; either argument may be
\* undefined, which is also what an omitted argument is.
CallReducer(state, action) ==
    /\ section = "reducer"
    /\ call' = <<[state |-> state, action |-> action,
                  result |-> summingReducer(state, action)]>>
    /\ UNCHANGED <<section, actions, store, composeVars, functorVars,
                   mixinVars>>

\* ------------------------------------------------- the flying functional mixin

\* const flying = o => { let isFlying = false; return Object.assign(...) };
\* every call makes a closure variable of its own.
flying(closures) == Append(closures, FALSE)

\* The mutant of land: the flag is left as it is.
landForgets(closures, b) == closures

\* fly () { isFlying = true; return this; }
fly(closures, b) == [closures EXCEPT ![b] = TRUE]

\* land () { isFlying = false; return this; }
land(closures, b) == [closures EXCEPT ![b] = FALSE]

\* isFlying: () => isFlying
isFlyingOf(closures, b) == closures[b]

InitMixin ==
    /\ isFlying = <<>>
    /\ calls = <<>>

\* const bird = flying({});
Flying ==
    /\ section = "mixin"
    /\ Len(isFlying) < MaxObjects
    /\ isFlying' = flying(isFlying)
    /\ calls' = Append(calls, <<>>)
    /\ UNCHANGED <<section, composeVars, functorVars, reduxVars>>

\* bird.fly()
Fly(b) ==
    /\ section = "mixin"
    /\ Len(calls[b]) < MaxCalls
    /\ isFlying' = fly(isFlying, b)
    /\ calls' = [calls EXCEPT ![b] = Append(@, "fly")]
    /\ UNCHANGED <<section, composeVars, functorVars, reduxVars>>

\* bird.land()
Land(b) ==
    /\ section = "mixin"
    /\ Len(calls[b]) < MaxCalls
    /\ isFlying' = land(isFlying, b)
    /\ calls' = [calls EXCEPT ![b] = Append(@, "land")]
    /\ UNCHANGED <<section, composeVars, functorVars, reduxVars>>

\* ------------------------------------------------------------ specification

Init ==
    /\ section \in Sections
    /\ InitCompose
    /\ InitFunctor
    /\ InitRedux
    /\ InitMixin

Next ==
    \/ \E names \in SeqsUpTo(FnNames, MaxFns), a \in 0..MaxX : CallPipe(names, a)
    \/ \E names \in SeqsUpTo(FnNames, MaxFns), a \in 0..MaxX : CallCompose(names, a)
    \/ \E v \in 0..MaxX : NewIdentity(v)
    \/ \E name \in FnNames : Map(name)
    \/ IdentityLaw
    \/ \E fName \in FnNames, gName \in FnNames : CompositionLaw(fName, gName)
    \/ \E a \in ActionObjects : Dispatch(a)
    \/ \E state \in -1..MaxValue, a \in ActionObjects : CallReducer(state, a)
    \/ \E a \in ActionObjects : CallReducer(Undefined, a)
    \/ \E state \in -1..MaxValue : CallReducer(state, Undefined)
    \/ CallReducer(Undefined, Undefined)
    \/ Flying
    \/ \E b \in 1..Len(isFlying) : Fly(b)
    \/ \E b \in 1..Len(isFlying) : Land(b)

Spec == Init /\ [][Next]_vars

\* ------------------------------------------------------------------ claims

\* fn(...f2(f1(a))) written out from the outermost call inwards.
RECURSIVE Nested(_, _)
Nested(names, a) ==
    IF names = <<>>
    THEN a
    ELSE FnOf(names[Len(names)])[Nested(SubSeq(names, 1, Len(names) - 1), a)]

\* The list in the opposite order.
Reverse(names) == [i \in 1..Len(names) |-> names[Len(names) - i + 1]]

\* C1: pipe(f1, ..., fn)(x) feeds each function's output to the next, left
\* to right, so the result is fn(...f2(f1(x))); pipe() of no functions
\* returns x unchanged.
C1_PipeLeftToRight ==
    op = "pipe" =>
        /\ y = Nested(fns, x)
        /\ fns = <<>> => y = x

\* add1ThenDouble(2) is 6: a pipe of two functions that do not commute.
C1_Witness ==
    /\ op = "pipe"
    /\ fns = <<"add1", "double">>
    /\ x = 2
    /\ y = 6

\* C2: compose is pipe right to left: compose(...fns)(x) equals
\* pipe(...reverse(fns))(x), and compose(f, g, h)(x) is f(g(h(x))).
C2_ComposeIsReversedPipe ==
    op = "compose" =>
        /\ y = pipe(Fns(Reverse(fns)), x)
        /\ Len(fns) = 3 => y = FnOf(fns[1])[FnOf(fns[2])[FnOf(fns[3])[x]]]

\* add1ThenDoubleWithCompose(2) is 6, with the first step listed last.
C2_Witness ==
    /\ op = "compose"
    /\ fns = <<"double", "add1">>
    /\ x = 2
    /\ y = 6

\* C3: the functor identity law: u.map(x => x) holds the value u holds.
C3_IdentityLaw ==
    ident # <<>> => ValueOf(ident[1]) = ValueOf(u)

\* The law was run on an Identity that two maps built from Identity(2).
C3_Witness ==
    /\ ident # <<>>
    /\ maps = 2
    /\ ValueOf(u) = 6
    /\ ValueOf(ident[1]) = 6

\* C4: the functor composition law: u.map(x => f(g(x))) holds the value
\* u.map(g).map(f) holds.
C4_CompositionLaw ==
    (r1 # <<>> \/ r2 # <<>>) =>
        /\ r1 # <<>>
        /\ r2 # <<>>
        /\ ValueOf(r1[1]) = ValueOf(r2[1])

\* r1 and r2 of the notes: u = Identity(2), f adds 1, g doubles, both hold 5.
C4_Witness ==
    /\ u = Identity(2)
    /\ f = "add1"
    /\ g = "double"
    /\ r1 = <<Identity(5)>>
    /\ r2 = <<Identity(5)>>

\* The action is one summingReducer does not handle: its type is not
\* ADD_VALUE, or it has no type, or no action was passed at all.
Unhandled(action) ==
    IF IsUndefined(action) THEN TRUE ELSE TypeOf(action) # ADD_VALUE

\* a === b for numbers and undefined.
SameValue(a, b) == ToString(a) = ToString(b)

\* C5, as stated: called with an action whose type it does not handle (any
\* type but ADD_VALUE, a missing type included), summingReducer returns the
\* state it was given, unchanged.
C5_ReturnsStateGiven ==
    (call # <<>> /\ Unhandled(call[1].action)) =>
        SameValue(call[1].result, call[1].state)

\* C5, amended: called with an action whose type it does not handle,
\* summingReducer returns the state it was given, unchanged, when that
\* state is not undefined; when the state is undefined or omitted it
\* returns the initial state 0.
C5_UnhandledActionKeepsState ==
    /\ \A a \in ActionObjects :
           TypeOf(a) # ADD_VALUE => summingReducer(store, a) = store
    /\ (call # <<>> /\ Unhandled(call[1].action)) =>
           IF IsUndefined(call[1].state)
           THEN call[1].result = 0
           ELSE call[1].result = call[1].state

\* A non-zero state was given with an action of no type, and came back.
C5_Witness ==
    /\ call # <<>>
    /\ ~IsUndefined(call[1].state)
    /\ ~IsUndefined(call[1].action)
    /\ call[1].action = <<>>
    /\ call[1].state = 2
    /\ call[1].result = 2

\* The sum of payload.value over the ADD_VALUE actions of the list.
RECURSIVE SumOfAddValues(_)
SumOfAddValues(arr) ==
    IF arr = <<>>
    THEN 0
    ELSE (IF TypeOf(Head(arr)) = ADD_VALUE THEN Head(arr).payload.value ELSE 0)
             + SumOfAddValues(Tail(arr))

\* C6: reducing the list of actions from 0 gives the state that dispatching
\* them one at a time gives, and after every prefix that state is the sum of
\* payload.value over the ADD_VALUE actions seen so far.
C6_ReduceIsDispatchIsSum ==
    /\ snapshot(actions) = store
    /\ store = SumOfAddValues(actions)
    /\ \A k \in 0..Len(actions) :
           snapshot(SubSeq(actions, 1, k)) = SumOfAddValues(SubSeq(actions, 1, k))

\* The list of the notes: three ADD_VALUE actions of value 1 give 3.
C6_Witness ==
    /\ actions = [i \in 1..3 |-> [type |-> ADD_VALUE, payload |-> [value |-> 1]]]
    /\ store = 3

\* C7: isFlying() is false right after flying(o), and after any fly()/land()
\* calls it is true exactly when the most recent call was fly().
C7_FlyingIffLastCallWasFly ==
    \A b \in 1..Len(isFlying) :
        isFlyingOf(isFlying, b) =
            (calls[b] # <<>> /\ calls[b][Len(calls[b])] = "fly")

\* One object flies again after landing while another has landed.
C7_Witness ==
    /\ Len(isFlying) = 2
    /\ calls[1] = <<"fly", "land", "fly">>
    /\ isFlyingOf(isFlying, 1)
    /\ calls[2] = <<"fly", "land">>
    /\ ~isFlyingOf(isFlying, 2)

====
